---- MODULE Spec2Model ----
(***************************************************************************)
(* Model of the Rainbow iKey 2032 reader driver, src/ifd/ifd-ikey2k.c.     *)
(*                                                                         *)
(* Every driver function is an operator returning the SET of its possible  *)
(* outcomes: one outcome per way the device can answer the control         *)
(* transfers the function issues.  An outcome records the return value,    *)
(* the control transfers issued (in order), the nested calls with their    *)
(* results, and the number of ct_error reports.                            *)
(***************************************************************************)
EXTENDS Integers, Sequences, FiniteSets, TLC

VARIABLES device,     \* reader->device: NULL or the handle held
          nslots,     \* reader->nslots
          handles,    \* handles currently open at the device provider
          life,       \* lifecycle of spec 4.5, tracked from the results
          deactSeen,  \* the last deactivate() since open(): none, ok, failed
          last,       \* record of the operation that returned last
          run,        \* per caller: the operation in progress (SpecConc)
          wire,       \* the control transfer issued last (SpecConc)
          wirePrev    \* the control transfer issued before it (SpecConc)

vars == <<device, nslots, handles, life, deactSeen, last, run, wire, wirePrev>>

----------------------------------------------------------------------------
(* Bounds of the model *)

\* device handles the provider can hand out
MaxHandles == 2
\* longest buffer a caller passes to send()
MaxSendLen == 5
\* callers of one session in SpecConc
NCallers == 2
\* longest buffer handed to ikey2k_do_send and ikey2k_do_cmd in SpecPure
MaxCodecLen == 6

----------------------------------------------------------------------------
(* Program constants *)

IKEY2K_CMD_RESET == 0
IKEY2K_CMD_GET_RESPONSE == 1
IKEY2K_CMD_CARD_CTL == 22
IKEY2K_CMD_CARD_IO == 23

IKEY2K_CARDCMD_RESET == 0
IKEY2K_CARDCMD_GET_ATR == 1

\* request type of a host-to-device transfer, 0x41
USB_OUT == 65
\* request type of a device-to-host transfer, 0xC1
USB_IN == 193
\* timeout of every transfer, in ms
USB_TIMEOUT == 1000
\* sizeof(buf) in ikey2k_do_card_cmd, sizeof(buffer) in ikey2k_activate
BUFSIZE == 256
IFD_CARD_PRESENT == 1
\* the null device pointer
NULL == 0

Min(a, b) == IF a < b THEN a ELSE b

----------------------------------------------------------------------------
(* The transport and the device behind it: ifd_usb_control.                *)

\* negative results of a control transfer
TransportErrors == {-1, -2}

\* lengths of the model device's answers to RESET, and to other requests
DescLens == {0, 5, 6, 12, 13, 64, 65}
RespLens == {0, 1, 2, 9, 25}

\* a descriptor-shaped answer: byte 0, byte 1 and byte 0x0C chosen, rest 0x80
DescBytes(n, b0, b1, bC) ==
    [i \in 1..n |-> IF i = 1 THEN b0
                    ELSE IF i = 2 THEN b1
                    ELSE IF i = 13 THEN bC
                    ELSE 128]

\* answers of the device to an IN transfer with request RESET: n bytes
Descriptors(n) ==
    { DescBytes(n, b0, b1, bC) : b0 \in {n, n + 1},
                                 b1 \in {95, 96, 111, 112},
                                 bC \in {9, 10, 25} }

\* answers of the device to any other IN transfer: n bytes, the first a
\* status byte 0 or 1, the others distinct
Responses(n) ==
    { [i \in 1..n |-> IF i = 1 THEN b0 ELSE 16 + i] : b0 \in {0, 1} }

DeviceData(req, n) ==
    IF req = IKEY2K_CMD_RESET THEN Descriptors(n) ELSE Responses(n)

DeviceLens(req) ==
    IF req = IKEY2K_CMD_RESET THEN DescLens ELSE RespLens

\* a control transfer as issued, with the result res it returned
Xfer(rt, req, value, index, data, len, res) ==
    [rt |-> rt, req |-> req, value |-> value, index |-> index,
     data |-> data, len |-> len, timeout |-> USB_TIMEOUT, res |-> res]

\* One control transfer.  The result is negative, or the number of bytes
\* transferred: all of an OUT payload, at most len bytes of an IN answer.
ifd_usb_control(rt, req, value, index, data, len) ==
    LET x(res) == <<Xfer(rt, req, value, index, data, len, res)>>
    IN  { [rc |-> e, buf |-> <<>>, x |-> x(e)] : e \in TransportErrors }
        \cup
        ( IF rt = USB_OUT
          THEN { [rc |-> len, buf |-> <<>>, x |-> x(len)] }
          ELSE UNION { { [rc |-> n, buf |-> d, x |-> x(n)] : d \in DeviceData(req, n) }
                       : n \in { m \in DeviceLens(req) : m <= len } } )

----------------------------------------------------------------------------
(* Control-transfer codec and command layers                               *)

\* mutant: the bytes packed into value and index are sent again as payload
do_send_HeaderSentAgain(cmd, data, len) ==
    LET b(i)  == IF len >= i THEN data[i] ELSE 0
        value == (b(1) + 256 * b(2)) % 65536
        index == (b(3) + 256 * b(4)) % 65536
    IN  ifd_usb_control(USB_OUT, cmd, value, index, SubSeq(data, 1, len), len)

\* ikey2k_do_send: up to four leading bytes go into value and index (low
\* byte first), the rest is the payload.  data holds at least len bytes.
ikey2k_do_send(cmd, data, len) ==
    LET b(i)  == IF len >= i THEN data[i] ELSE 0
        value == (b(1) + 256 * b(2)) % 65536
        index == (b(3) + 256 * b(4)) % 65536
        used  == Min(len, 4)
    IN  ifd_usb_control(USB_OUT, cmd, value, index,
                        SubSeq(data, used + 1, len), len - used)

ikey2k_do_recv(cmd, len) ==
    ifd_usb_control(USB_IN, cmd, 0, 0, <<>>, len)

\* mutant: the response is fetched although no output was asked for
do_cmd_FetchWithoutOutput(cmd, indata, inlen, outdata, outlen) ==
    UNION { IF s.rc >= 0
            THEN { [rc |-> r.rc, buf |-> r.buf, x |-> s.x \o r.x]
                   : r \in ikey2k_do_recv(IKEY2K_CMD_GET_RESPONSE, outlen) }
            ELSE { s }
            : s \in ikey2k_do_send(cmd, indata, inlen) }

\* ikey2k_do_cmd; outdata is TRUE for a non-null output buffer
ikey2k_do_cmd(cmd, indata, inlen, outdata, outlen) ==
    UNION { IF s.rc >= 0 /\ outdata /\ outlen # 0
            THEN { [rc |-> r.rc, buf |-> r.buf, x |-> s.x \o r.x]
                   : r \in ikey2k_do_recv(IKEY2K_CMD_GET_RESPONSE, outlen) }
            ELSE { s }
            : s \in ikey2k_do_send(cmd, indata, inlen) }

ikey2k_do_card_send(indata, inlen) ==
    ikey2k_do_send(IKEY2K_CMD_CARD_IO, indata, inlen)

ikey2k_do_card_recv(outlen) ==
    ikey2k_do_recv(IKEY2K_CMD_GET_RESPONSE, outlen)

\* what lies in buf[2..] and behind buf where nothing was copied: any bytes
StackBytes == {0, 255}

\* the frame ikey2k_do_card_cmd hands to ikey2k_do_send: inlen + 2 bytes
\* starting at buf, of which min(254, inlen) were copied from indata
CardCtlFrames(cmd, arg1, indata, inlen) ==
    LET copied == Min(BUFSIZE - 2, inlen)
    IN  { <<cmd % 256, arg1 % 256>> \o SubSeq(indata, 1, copied)
          \o [i \in 1..(inlen - copied) |-> g] : g \in StackBytes }

\* mutant: the response is fetched with the command itself
do_card_cmd_FetchWithCommand(cmd, arg1, indata, inlen, outdata, outlen) ==
    UNION { UNION { IF s.rc >= 0 /\ outdata /\ outlen # 0
                    THEN { [rc |-> r.rc, buf |-> r.buf, x |-> s.x \o r.x]
                           : r \in ikey2k_do_recv(IKEY2K_CMD_CARD_CTL, outlen) }
                    ELSE { s }
                    : s \in ikey2k_do_send(IKEY2K_CMD_CARD_CTL, f, inlen + 2) }
            : f \in CardCtlFrames(cmd, arg1, indata, inlen) }

\* mutant: the response is fetched although the send failed
do_card_cmd_FetchAfterFailedSend(cmd, arg1, indata, inlen, outdata, outlen) ==
    UNION { UNION { IF outdata /\ outlen # 0
                    THEN { [rc |-> r.rc, buf |-> r.buf, x |-> s.x \o r.x]
                           : r \in ikey2k_do_recv(IKEY2K_CMD_GET_RESPONSE, outlen) }
                    ELSE { s }
                    : s \in ikey2k_do_send(IKEY2K_CMD_CARD_CTL, f, inlen + 2) }
            : f \in CardCtlFrames(cmd, arg1, indata, inlen) }

\* ikey2k_do_card_cmd; outdata is TRUE for a non-null output buffer
ikey2k_do_card_cmd(cmd, arg1, indata, inlen, outdata, outlen) ==
    UNION { UNION { IF s.rc >= 0 /\ outdata /\ outlen # 0
                    THEN { [rc |-> r.rc, buf |-> r.buf, x |-> s.x \o r.x]
                           : r \in ikey2k_do_recv(IKEY2K_CMD_GET_RESPONSE, outlen) }
                    ELSE { s }
                    : s \in ikey2k_do_send(IKEY2K_CMD_CARD_CTL, f, inlen + 2) }
            : f \in CardCtlFrames(cmd, arg1, indata, inlen) }

----------------------------------------------------------------------------
(* Descriptor validator                                                    *)

\* the value of a call that ends without a return statement: any int
Indeterminate == {-1, 0, 1}

\* ikey2k_parse_desc: the set of values the call can yield.  The function
\* has no return statement on the path where every check passes.
ikey2k_parse_desc(desc, desclen) ==
    IF desclen < 6 \/ desclen > 64 \/ desc[1] # desclen THEN {-1}
    ELSE IF desc[2] < 96 \/ desc[2] > 111 THEN {-2}
    ELSE IF desclen > 12 /\ desc[13] # 9 /\ desc[13] # 25 THEN {-3}
    ELSE Indeterminate

----------------------------------------------------------------------------
(* Driver API.  An outcome of a handler:                                   *)
(*   ret   the value returned          nerr  the number of ct_error calls  *)
(*   x     the control transfers issued, in order                          *)
(*   calls the command-layer calls made, each with its result              *)
(*   out   the bytes written to the caller's buffer                        *)

Outcome(ret, nerr, x, calls, out) ==
    [ret |-> ret, nerr |-> nerr, x |-> x, calls |-> calls, out |-> out]

\* a command-layer call and its result: rc, and the bytes it received
Call(fn, cmd, arg, cap, r) ==
    [fn |-> fn, cmd |-> cmd, arg |-> arg, cap |-> cap, rc |-> r.rc, buf |-> r.buf]

\* a buffer after new bytes were received at its start
Overlay(new, old) == new \o SubSeq(old, Len(new) + 1, Len(old))

ikey2k_activate ==
    UNION { LET c == <<Call("do_recv", IKEY2K_CMD_RESET, 0, BUFSIZE, r)>>
            IN  IF r.rc <= 0
                THEN { Outcome(-1, 1, r.x, c, <<>>) }
                ELSE { IF p = 0 THEN Outcome(-1, 1, r.x, c, <<>>)
                                ELSE Outcome(0, 0, r.x, c, <<>>)
                       : p \in ikey2k_parse_desc(r.buf, r.rc) }
            : r \in ikey2k_do_recv(IKEY2K_CMD_RESET, BUFSIZE) }

\* mutant: a session that was deactivated is not reset again
deactivate_OnlyOnce ==
    IF deactSeen = "ok"
    THEN { Outcome(0, 0, <<>>, <<>>, <<>>) }
    ELSE { LET c == <<Call("do_card_cmd", IKEY2K_CARDCMD_RESET, 0, 2, r)>>
           IN  IF r.rc # 1 \/ r.buf[1] # 0
               THEN Outcome(-1, 1, r.x, c, <<>>)
               ELSE Outcome(0, 0, r.x, c, <<>>)
           : r \in ikey2k_do_card_cmd(IKEY2K_CARDCMD_RESET, 0, <<>>, 0, TRUE, 2) }

ikey2k_deactivate ==
    { LET c == <<Call("do_card_cmd", IKEY2K_CARDCMD_RESET, 0, 2, r)>>
      IN  IF r.rc # 1 \/ r.buf[1] # 0
          THEN Outcome(-1, 1, r.x, c, <<>>)
          ELSE Outcome(0, 0, r.x, c, <<>>)
      : r \in ikey2k_do_card_cmd(IKEY2K_CARDCMD_RESET, 0, <<>>, 0, TRUE, 2) }

\* mutant: only slot 0 has a card
card_status_OnlySlotZero(slot) ==
    { [ret |-> IF slot = 0 THEN 0 ELSE -1, nerr |-> 0, x |-> <<>>, calls |-> <<>>,
       out |-> <<>>, status |-> IF slot = 0 THEN IFD_CARD_PRESENT ELSE 0] }

ikey2k_card_status(slot) ==
    { [ret |-> 0, nerr |-> 0, x |-> <<>>, calls |-> <<>>, out |-> <<>>,
       status |-> IFD_CARD_PRESENT] }

\* mutant: the ATR length is not compared with the caller's capacity
CardResetEnd_CapacityIgnored(atrlen, buffer, size, x, calls) ==
    IF atrlen < 9
    THEN Outcome(-1, 1, x, calls, <<>>)
    ELSE Outcome(atrlen, 0, x, calls, SubSeq(buffer, 1, atrlen))

\* the end of ikey2k_card_reset, from the check of atrlen on
CardResetEnd(atrlen, buffer, size, x, calls) ==
    IF atrlen < 9 \/ atrlen > size
    THEN Outcome(-1, 1, x, calls, <<>>)
    ELSE Outcome(atrlen, 0, x, calls, SubSeq(buffer, 1, atrlen))

\* mutant: no fallback after a negative result of GET_ATR with arg 25
card_reset_NoFallbackAfterError(slot, size) ==
    UNION {
      LET c1 == <<Call("do_card_cmd", IKEY2K_CARDCMD_RESET, 0, 2, r1)>>
      IN  IF r1.rc # 1 \/ r1.buf[1] # 0
          THEN { Outcome(-1, 1, r1.x, c1, <<>>) }
          ELSE UNION {
            LET c2 == c1 \o <<Call("do_card_cmd", IKEY2K_CARDCMD_GET_ATR, 25, 25, r2)>>
                b2 == Overlay(r2.buf, r1.buf)
            IN  IF r2.rc >= 0 /\ r2.rc # 25
                THEN { CardResetEnd(r3.rc, Overlay(r3.buf, b2), size,
                                    r1.x \o r2.x \o r3.x,
                                    c2 \o <<Call("do_card_cmd", IKEY2K_CARDCMD_GET_ATR, 9, 9, r3)>>)
                       : r3 \in ikey2k_do_card_cmd(IKEY2K_CARDCMD_GET_ATR, 9, b2, 0, TRUE, 9) }
                ELSE { CardResetEnd(r2.rc, b2, size, r1.x \o r2.x, c2) }
            : r2 \in ikey2k_do_card_cmd(IKEY2K_CARDCMD_GET_ATR, 25, r1.buf, 0, TRUE, 25) }
      : r1 \in ikey2k_do_card_cmd(IKEY2K_CARDCMD_RESET, 0, <<>>, 0, TRUE, 2) }

\* mutant: the status byte of the card reset is not looked at
card_reset_StatusByteIgnored(slot, size) ==
    UNION {
      LET c1 == <<Call("do_card_cmd", IKEY2K_CARDCMD_RESET, 0, 2, r1)>>
      IN  IF r1.rc # 1
          THEN { Outcome(-1, 1, r1.x, c1, <<>>) }
          ELSE UNION {
            LET c2 == c1 \o <<Call("do_card_cmd", IKEY2K_CARDCMD_GET_ATR, 25, 25, r2)>>
                b2 == Overlay(r2.buf, r1.buf)
            IN  IF r2.rc # 25
                THEN { CardResetEnd(r3.rc, Overlay(r3.buf, b2), size,
                                    r1.x \o r2.x \o r3.x,
                                    c2 \o <<Call("do_card_cmd", IKEY2K_CARDCMD_GET_ATR, 9, 9, r3)>>)
                       : r3 \in ikey2k_do_card_cmd(IKEY2K_CARDCMD_GET_ATR, 9, b2, 0, TRUE, 9) }
                ELSE { CardResetEnd(r2.rc, b2, size, r1.x \o r2.x, c2) }
            : r2 \in ikey2k_do_card_cmd(IKEY2K_CARDCMD_GET_ATR, 25, r1.buf, 0, TRUE, 25) }
      : r1 \in ikey2k_do_card_cmd(IKEY2K_CARDCMD_RESET, 0, <<>>, 0, TRUE, 2) }

\* mutant: GET_ATR with arg 9 is tried a second time when it did not
\* return 9 bytes
card_reset_SecondFallback(slot, size) ==
    UNION {
      LET c1 == <<Call("do_card_cmd", IKEY2K_CARDCMD_RESET, 0, 2, r1)>>
      IN  IF r1.rc # 1 \/ r1.buf[1] # 0
          THEN { Outcome(-1, 1, r1.x, c1, <<>>) }
          ELSE UNION {
            LET c2 == c1 \o <<Call("do_card_cmd", IKEY2K_CARDCMD_GET_ATR, 25, 25, r2)>>
                b2 == Overlay(r2.buf, r1.buf)
            IN  IF r2.rc # 25
                THEN UNION {
                  LET c3 == c2 \o <<Call("do_card_cmd", IKEY2K_CARDCMD_GET_ATR, 9, 9, r3)>>
                      b3 == Overlay(r3.buf, b2)
                  IN  IF r3.rc # 9
                      THEN { CardResetEnd(r4.rc, Overlay(r4.buf, b3), size,
                                          r1.x \o r2.x \o r3.x \o r4.x,
                                          c3 \o <<Call("do_card_cmd", IKEY2K_CARDCMD_GET_ATR, 9, 9, r4)>>)
                             : r4 \in ikey2k_do_card_cmd(IKEY2K_CARDCMD_GET_ATR, 9, b3, 0, TRUE, 9) }
                      ELSE { CardResetEnd(r3.rc, b3, size, r1.x \o r2.x \o r3.x, c3) }
                  : r3 \in ikey2k_do_card_cmd(IKEY2K_CARDCMD_GET_ATR, 9, b2, 0, TRUE, 9) }
                ELSE { CardResetEnd(r2.rc, b2, size, r1.x \o r2.x, c2) }
            : r2 \in ikey2k_do_card_cmd(IKEY2K_CARDCMD_GET_ATR, 25, r1.buf, 0, TRUE, 25) }
      : r1 \in ikey2k_do_card_cmd(IKEY2K_CARDCMD_RESET, 0, <<>>, 0, TRUE, 2) }

ikey2k_card_reset(slot, size) ==
    UNION {
      LET c1 == <<Call("do_card_cmd", IKEY2K_CARDCMD_RESET, 0, 2, r1)>>
      IN  IF r1.rc # 1 \/ r1.buf[1] # 0
          THEN { Outcome(-1, 1, r1.x, c1, <<>>) }
          ELSE UNION {
            LET c2 == c1 \o <<Call("do_card_cmd", IKEY2K_CARDCMD_GET_ATR, 25, 25, r2)>>
                b2 == Overlay(r2.buf, r1.buf)
            IN  IF r2.rc # 25
                THEN { CardResetEnd(r3.rc, Overlay(r3.buf, b2), size,
                                    r1.x \o r2.x \o r3.x,
                                    c2 \o <<Call("do_card_cmd", IKEY2K_CARDCMD_GET_ATR, 9, 9, r3)>>)
                       : r3 \in ikey2k_do_card_cmd(IKEY2K_CARDCMD_GET_ATR, 9, b2, 0, TRUE, 9) }
                ELSE { CardResetEnd(r2.rc, b2, size, r1.x \o r2.x, c2) }
            : r2 \in ikey2k_do_card_cmd(IKEY2K_CARDCMD_GET_ATR, 25, r1.buf, 0, TRUE, 25) }
      : r1 \in ikey2k_do_card_cmd(IKEY2K_CARDCMD_RESET, 0, <<>>, 0, TRUE, 2) }

ikey2k_send(dad, buffer, len) ==
    { Outcome(r.rc, 0, r.x, <<Call("do_card_send", IKEY2K_CMD_CARD_IO, 0, 0, r)>>, <<>>)
      : r \in ikey2k_do_card_send(buffer, len) }

\* mutant: the caller's timeout is handed to the transfer
recv_TimeoutPassedOn(dad, len, timeout) ==
    { Outcome(r.rc, 0, [i \in 1..Len(r.x) |-> [r.x[i] EXCEPT !.timeout = timeout]],
              <<Call("do_card_recv", IKEY2K_CMD_GET_RESPONSE, 0, len, r)>>, r.buf)
      : r \in ikey2k_do_card_recv(len) }

ikey2k_recv(dad, len, timeout) ==
    { Outcome(r.rc, 0, r.x, <<Call("do_card_recv", IKEY2K_CMD_GET_RESPONSE, 0, len, r)>>, r.buf)
      : r \in ikey2k_do_card_recv(len) }

ikey2k_close == { Outcome(0, 0, <<>>, <<>>, <<>>) }

\* ifd_device_open: no device, or a new handle of some type
DeviceOpenResults ==
    LET free == (1..MaxHandles) \ handles
    IN  { [h |-> NULL, type |-> "NONE"] } \cup { [h |-> h, type |-> t]
                        : h \in { f \in free : \A g \in free : f <= g },
                          t \in {"USB", "OTHER"} }

\* a call of the device provider made by ikey2k_open
SetParameters(h, iface, rc) ==
    [fn |-> "ifd_device_set_parameters", h |-> h, iface |-> iface, rc |-> rc]
DeviceClose(h) ==
    [fn |-> "ifd_device_close", h |-> h, iface |-> 0, rc |-> 0]

\* mutant: the handle of a device that is not a USB device is not closed
open_NonUsbNotClosed(dev, setrc) ==
    IF dev.h = NULL
    THEN [ret |-> -1, nerr |-> 0, dev |-> device, nslots |-> 1, calls |-> <<>>]
    ELSE IF dev.type # "USB"
    THEN [ret |-> -1, nerr |-> 1, dev |-> device, nslots |-> 1, calls |-> <<>>]
    ELSE IF setrc < 0
    THEN [ret |-> -1, nerr |-> 1, dev |-> device, nslots |-> 1,
          calls |-> <<SetParameters(dev.h, 0, setrc), DeviceClose(dev.h)>>]
    ELSE [ret |-> 0, nerr |-> 0, dev |-> dev.h, nslots |-> 1,
          calls |-> <<SetParameters(dev.h, 0, setrc)>>]

\* ikey2k_open with the device ifd_device_open returned and the result of
\* ifd_device_set_parameters: dev is the device stored in the reader,
\* calls are the calls made on the handle after it was acquired
ikey2k_open(dev, setrc) ==
    IF dev.h = NULL
    THEN [ret |-> -1, nerr |-> 0, dev |-> device, nslots |-> 1, calls |-> <<>>]
    ELSE IF dev.type # "USB"
    THEN [ret |-> -1, nerr |-> 1, dev |-> device, nslots |-> 1,
          calls |-> <<DeviceClose(dev.h)>>]
    ELSE IF setrc < 0
    THEN [ret |-> -1, nerr |-> 1, dev |-> device, nslots |-> 1,
          calls |-> <<SetParameters(dev.h, 0, setrc), DeviceClose(dev.h)>>]
    ELSE [ret |-> 0, nerr |-> 0, dev |-> dev.h, nslots |-> 1,
          calls |-> <<SetParameters(dev.h, 0, setrc)>>]

\* the handles open at the provider after handle h was acquired (NULL:
\* none was) and the calls were made on it
HandlesAfter(h, calls) ==
    LET closed == { calls[i].h : i \in { j \in 1..Len(calls) : calls[j].fn = "ifd_device_close" } }
    IN  (handles \cup ({h} \ {NULL})) \ closed

----------------------------------------------------------------------------
(* The session: one caller invokes the driver operations one at a time.    *)

\* the lifecycle of spec 4.5 after operation op returned ret
LifeAfter(op, ret) ==
    CASE op = "open"       -> IF ret = 0 THEN "Opened" ELSE "Closed"
      [] op = "close"      -> "Closed"
      [] op = "activate"   -> IF ret = 0 THEN "Activated" ELSE "Opened"
      [] op = "card_reset" -> IF ret > 0 THEN "CardReady" ELSE life
      [] op = "deactivate" -> "Deactivated"
      [] OTHER             -> life

Callers == 1..NCallers
Idle == [op |-> "idle", todo |-> <<>>, idx |-> 0]
NoXfer == [caller |-> 0, idx |-> 0, op |-> "none", rt |-> 0, req |-> 0]

\* the operation op with inputs in returned with outcome o
Returned(op, in, o) ==
    /\ last' = [op |-> op, in |-> in, ret |-> o.ret, nerr |-> o.nerr,
                x |-> o.x, calls |-> o.calls, out |-> o.out,
                lifeBefore |-> life, deactBefore |-> deactSeen]
    /\ life' = LifeAfter(op, o.ret)
    /\ deactSeen' = CASE op = "deactivate" -> IF o.ret = 0 THEN "ok" ELSE "failed"
                      [] op \in {"open", "close"} -> "none"
                      [] OTHER -> deactSeen
    /\ UNCHANGED <<run, wire, wirePrev>>

\* callers' inputs
Dads == {0, 1}
Timeouts == {0, 1000}
RecvCaps == {0, 2, 9}
AtrSizes == {8, 9, 25}
Slots == {0}
StatusSlots == {-1, 0, 1}
SendBuffer(len) == [i \in 1..len |-> 160 + i]

\* the framework opens a reader it has no device for
Open ==
    /\ device = NULL
    /\ \E dev \in DeviceOpenResults, setrc \in {0, -1} :
         LET o == ikey2k_open(dev, setrc)
         IN  /\ nslots' = o.nslots
             /\ device' = o.dev
             /\ handles' = HandlesAfter(dev.h, o.calls)
             /\ Returned("open", [dev |-> dev, setrc |-> setrc],
                         Outcome(o.ret, o.nerr, <<>>, o.calls, <<>>))

\* ikey2k_close, after which the framework closes the device and clears
\* the reader
Close ==
    /\ device # NULL
    /\ \E o \in ikey2k_close :
         /\ handles' = handles \ {device}
         /\ device' = NULL
         /\ nslots' = 0
         /\ Returned("close", <<>>, o)

Activate ==
    /\ device # NULL
    /\ \E o \in ikey2k_activate : Returned("activate", <<>>, o)
    /\ UNCHANGED <<device, nslots, handles>>

Deactivate ==
    /\ device # NULL
    /\ \E o \in ikey2k_deactivate : Returned("deactivate", <<>>, o)
    /\ UNCHANGED <<device, nslots, handles>>

CardStatus ==
    /\ device # NULL
    /\ \E slot \in StatusSlots : \E o \in ikey2k_card_status(slot) :
         Returned("card_status", [slot |-> slot],
                  Outcome(o.ret, o.nerr, o.x, o.calls, <<o.status>>))
    /\ UNCHANGED <<device, nslots, handles>>

CardReset ==
    /\ device # NULL
    /\ \E slot \in Slots, size \in AtrSizes : \E o \in ikey2k_card_reset(slot, size) :
         Returned("card_reset", [slot |-> slot, size |-> size], o)
    /\ UNCHANGED <<device, nslots, handles>>

Send ==
    /\ device # NULL
    /\ \E dad \in Dads, len \in 0..MaxSendLen :
         \E o \in ikey2k_send(dad, SendBuffer(len), len) :
           Returned("send", [dad |-> dad, len |-> len], o)
    /\ UNCHANGED <<device, nslots, handles>>

Recv ==
    /\ device # NULL
    /\ \E dad \in Dads, len \in RecvCaps, timeout \in Timeouts :
         \E o \in ikey2k_recv(dad, len, timeout) :
           Returned("recv", [dad |-> dad, len |-> len, timeout |-> timeout], o)
    /\ UNCHANGED <<device, nslots, handles>>

Init ==
    /\ device = NULL
    /\ nslots = 0
    /\ handles = {}
    /\ life = "Closed"
    /\ deactSeen = "none"
    /\ last = [op |-> "none", in |-> <<>>, ret |-> 0, nerr |-> 0, x |-> <<>>,
               calls |-> <<>>, out |-> <<>>, lifeBefore |-> "Closed",
               deactBefore |-> "none"]
    /\ run = [c \in Callers |-> Idle]
    /\ wire = NoXfer
    /\ wirePrev = NoXfer

Next ==
    \/ Open
    \/ Close
    \/ Activate
    \/ Deactivate
    \/ CardStatus
    \/ CardReset
    \/ Send
    \/ Recv

Spec == Init /\ [][Next]_vars

----------------------------------------------------------------------------
(* Two callers on one opened session.  The driver holds no lock: a handler *)
(* runs from one control transfer to the next, and between two transfers   *)
(* another caller's handler may run.  SpecConc observes the bus: the       *)
(* transfers in the order they are issued, each tagged with its caller and *)
(* its position in the handler that issued it.                             *)

\* what the bus shows of the transfers x: the requests, not the answers
Bus(x) ==
    [i \in 1..Len(x) |-> [rt |-> x[i].rt, req |-> x[i].req, value |-> x[i].value,
                          index |-> x[i].index, len |-> x[i].len]]

\* the handlers a caller may run, each with the transfers it issues
Handlers ==
    { [op |-> "activate", x |-> Bus(o.x)] : o \in ikey2k_activate }
    \cup { [op |-> "deactivate", x |-> Bus(o.x)] : o \in ikey2k_deactivate }
    \cup UNION { { [op |-> "card_reset", x |-> Bus(o.x)] : o \in ikey2k_card_reset(slot, size) }
                 : slot \in Slots, size \in AtrSizes }
    \cup UNION { { [op |-> "send", x |-> Bus(o.x)] : o \in ikey2k_send(1, SendBuffer(len), len) }
                 : len \in 0..MaxSendLen }
    \cup UNION { { [op |-> "recv", x |-> Bus(o.x)] : o \in ikey2k_recv(1, len, 0) }
                 : len \in RecvCaps }

\* caller c enters a handler
Invoke(c) ==
    /\ run[c] = Idle
    /\ \E h \in Handlers :
         run' = [run EXCEPT ![c] = [op |-> h.op, todo |-> h.x, idx |-> 0]]
    /\ UNCHANGED <<device, nslots, handles, life, deactSeen, last, wire, wirePrev>>

\* the handler caller c runs issues its next control transfer
Transfer(c) ==
    /\ run[c].todo # <<>>
    /\ wirePrev' = wire
    /\ wire' = [caller |-> c, idx |-> run[c].idx + 1, op |-> run[c].op,
                rt |-> Head(run[c].todo).rt, req |-> Head(run[c].todo).req]
    /\ run' = [run EXCEPT ![c] = [op |-> run[c].op, todo |-> Tail(run[c].todo),
                                  idx |-> run[c].idx + 1]]
    /\ UNCHANGED <<device, nslots, handles, life, deactSeen, last>>

\* the handler caller c runs returns
Complete(c) ==
    /\ run[c].op # "idle"
    /\ run[c].todo = <<>>
    /\ run' = [run EXCEPT ![c] = Idle]
    /\ UNCHANGED <<device, nslots, handles, life, deactSeen, last, wire, wirePrev>>

\* the session after a successful open()
InitConc ==
    /\ device = 1
    /\ nslots = 1
    /\ handles = {1}
    /\ life = "Opened"
    /\ deactSeen = "none"
    /\ last = [op |-> "open", in |-> [dev |-> [h |-> 1, type |-> "USB"], setrc |-> 0],
               ret |-> 0, nerr |-> 0, x |-> <<>>,
               calls |-> <<SetParameters(1, 0, 0)>>, out |-> <<>>,
               lifeBefore |-> "Closed", deactBefore |-> "none"]
    /\ run = [c \in Callers |-> Idle]
    /\ wire = NoXfer
    /\ wirePrev = NoXfer

NextConc ==
    \E c \in Callers :
        \/ Invoke(c)
        \/ Transfer(c)
        \/ Complete(c)

SpecConc == InitConc /\ [][NextConc]_vars

----------------------------------------------------------------------------
(* The codec, the command layers and the validator as functions: SpecPure  *)
(* draws a call with its arguments and applies the function to it.         *)

\* enum ikey2k_command and enum ikey2k_card_command
DeviceCommands == (0..16) \cup {18, 22, 23}
CardCommands == 0..3

\* buffers of n bytes, all bytes distinct: a1 a2 a3 ..., and ff fe fd ...
CodecBuffers(n) ==
    { [i \in 1..n |-> 160 + i], [i \in 1..n |-> 256 - i] }

\* input lengths of ikey2k_do_card_cmd, around the 254 bytes buf has room for
CardInLens == {0, 1, 2, 3, BUFSIZE - 3, BUFSIZE - 2, BUFSIZE - 1, BUFSIZE}
CardInput(n) == [i \in 1..n |-> 1 + (i % 250)]

\* the example of ikey2k_parse_desc: 0d 63 00 06 2d 2d c0 80 80 60 80 01 19
ExampleDescriptor == <<13, 99, 0, 6, 45, 45, 192, 128, 128, 96, 128, 1, 25>>

PureCalls ==
    UNION { { [fn |-> "do_send", cmd |-> cmd, data |-> d, len |-> n]
              : cmd \in DeviceCommands, d \in CodecBuffers(n) }
            : n \in 0..MaxCodecLen }
    \cup
    { [fn |-> "do_cmd", cmd |-> cmd, data |-> [i \in 1..n |-> 160 + i], len |-> n,
       outdata |-> od, outlen |-> ol]
      : cmd \in {IKEY2K_CMD_RESET, IKEY2K_CMD_CARD_IO}, n \in {0, MaxCodecLen},
        od \in BOOLEAN, ol \in {0, 2} }
    \cup
    { [fn |-> "do_card_cmd", cmd |-> cmd, arg |-> arg, data |-> CardInput(n), len |-> n,
       outdata |-> od, outlen |-> ol]
      : cmd \in CardCommands, arg \in {0, 9, 25}, n \in CardInLens,
        od \in BOOLEAN, ol \in {0, 2} }
    \cup
    { [fn |-> "parse_desc", desc |-> d, len |-> Len(d)]
      : d \in {ExampleDescriptor} \cup UNION { Descriptors(n) : n \in DescLens } }

\* the function called returned r
Applied(r) ==
    /\ last' = [last EXCEPT !.op = last.in.fn, !.ret = r.rc, !.x = r.x, !.out = r.buf]
    /\ UNCHANGED <<device, nslots, handles, life, deactSeen, run, wire, wirePrev>>

DoSend ==
    /\ last.op = "call" /\ last.in.fn = "do_send"
    /\ \E r \in ikey2k_do_send(last.in.cmd, last.in.data, last.in.len) : Applied(r)

DoCmd ==
    /\ last.op = "call" /\ last.in.fn = "do_cmd"
    /\ \E r \in ikey2k_do_cmd(last.in.cmd, last.in.data, last.in.len,
                              last.in.outdata, last.in.outlen) : Applied(r)

DoCardCmd ==
    /\ last.op = "call" /\ last.in.fn = "do_card_cmd"
    /\ \E r \in ikey2k_do_card_cmd(last.in.cmd, last.in.arg, last.in.data, last.in.len,
                                   last.in.outdata, last.in.outlen) : Applied(r)

ParseDesc ==
    /\ last.op = "call" /\ last.in.fn = "parse_desc"
    /\ \E v \in ikey2k_parse_desc(last.in.desc, last.in.len) :
         Applied([rc |-> v, x |-> <<>>, buf |-> <<>>])

\* an opened session, and a call about to be made
InitPure ==
    /\ device = 1
    /\ nslots = 1
    /\ handles = {1}
    /\ life = "Opened"
    /\ deactSeen = "none"
    /\ \E c \in PureCalls :
         last = [op |-> "call", in |-> c, ret |-> 0, nerr |-> 0, x |-> <<>>,
                 calls |-> <<>>, out |-> <<>>, lifeBefore |-> "Opened",
                 deactBefore |-> "none"]
    /\ run = [c \in Callers |-> Idle]
    /\ wire = NoXfer
    /\ wirePrev = NoXfer

NextPure ==
    \/ DoSend
    \/ DoCmd
    \/ DoCardCmd
    \/ ParseDesc

SpecPure == InitPure /\ [][NextPure]_vars

----------------------------------------------------------------------------
(* Claims                                                                  *)

\* the transfers of the operation that returned last, and its calls
LastX == last.x
LastCalls == last.calls
IsFetch(t) == t.rt = USB_IN /\ t.req = IKEY2K_CMD_GET_RESPONSE /\ t.value = 0 /\ t.index = 0
\* the send of card_exec(cmd, arg, no input): CARD_CTL, the two header
\* bytes in value, no payload
IsCardSend(t, cmd, arg) ==
    /\ t.rt = USB_OUT /\ t.req = IKEY2K_CMD_CARD_CTL
    /\ t.value = cmd + 256 * arg /\ t.index = 0 /\ t.len = 0 /\ t.data = <<>>
IsGetAtrSend(t) ==
    t.rt = USB_OUT /\ t.req = IKEY2K_CMD_CARD_CTL /\ t.value % 256 = IKEY2K_CARDCMD_GET_ATR
\* a card reset answered with exactly one byte whose value is 0
ResetOk(c) == c.rc = 1 /\ c.buf[1] = 0

\* the Descriptor Validator as spec 4.4 states it
SpecAccepts(desc) ==
    LET n == Len(desc)
    IN  /\ 6 <= n /\ n <= 64
        /\ desc[1] = n
        /\ 96 <= desc[2] /\ desc[2] <= 111
        /\ (n <= 12 \/ desc[13] \in {9, 25})

\* C1: activate() succeeds if and only if the descriptor fetch returns a
\* length > 0 and the Descriptor Validator accepts the returned bytes.
C1_ActivateIffValid ==
    last.op = "activate" =>
        ( last.ret = 0 <=>
            (LastCalls[1].rc > 0 /\ SpecAccepts(LastCalls[1].buf)) )

C3_AtrNegotiation ==
    (last.op = "card_reset" /\ ResetOk(LastCalls[1])) =>
        LET c == LastCalls
            sends == { i \in 1..Len(LastX) : IsGetAtrSend(LastX[i]) }
        IN  /\ Len(c) >= 2
            /\ c[2].cmd = IKEY2K_CARDCMD_GET_ATR /\ c[2].arg = 25 /\ c[2].cap = 25
            /\ IsCardSend(LastX[3], IKEY2K_CARDCMD_GET_ATR, 25)
            /\ LastX[3].res >= 0 => (IsFetch(LastX[4]) /\ LastX[4].len = 25)
            /\ c[2].rc = 25 => (Len(c) = 2 /\ sends = {3} /\ Len(LastX) = 4)
            /\ c[2].rc # 25 =>
                 LET k == IF LastX[3].res >= 0 THEN 5 ELSE 4
                 IN  /\ Len(c) = 3
                     /\ c[3].cmd = IKEY2K_CARDCMD_GET_ATR /\ c[3].arg = 9 /\ c[3].cap = 9
                     /\ sends = {3, k}
                     /\ IsCardSend(LastX[k], IKEY2K_CARDCMD_GET_ATR, 9)
                     /\ LastX[k].res >= 0 =>
                          (IsFetch(LastX[k + 1]) /\ LastX[k + 1].len = 9)
                     /\ last.ret >= 0 =>
                          (last.ret = 9 /\ c[3].rc = 9 /\ last.in.size >= 9)
            /\ Cardinality(sends) <= 2

\* a reset_card that fell back to arg 9 and returned the 9-byte ATR
C3_Witness ==
    /\ last.op = "card_reset" /\ ResetOk(LastCalls[1])
    /\ Len(LastCalls) = 3 /\ LastCalls[2].rc = 2 /\ last.ret = 9

\* C4: in reset_card, if the card reset does not return exactly 1 byte of
\* value 0, reset_card fails and no GET_ATR transfer is issued.
C4_NoAtrAfterFailedReset ==
    (last.op = "card_reset" /\ ~ResetOk(LastCalls[1])) =>
        /\ last.ret < 0
        /\ Len(LastCalls) = 1
        /\ LastCalls[1].cmd = IKEY2K_CARDCMD_RESET /\ LastCalls[1].cap = 2
        /\ IsCardSend(LastX[1], IKEY2K_CARDCMD_RESET, 0)
        /\ Len(LastX) <= 2
        /\ Len(LastX) = 2 => (IsFetch(LastX[2]) /\ LastX[2].len = 2)
        /\ \A i \in 1..Len(LastX) : ~IsGetAtrSend(LastX[i])

\* a reset_card whose card reset returned one byte that is not 0
C4_Witness ==
    /\ last.op = "card_reset"
    /\ LastCalls[1].rc = 1 /\ LastCalls[1].buf[1] = 1
    /\ last.ret = -1

\* C5: with two callers on one session, the fetch that follows a send
\* inside a command is issued right after that send: no transfer of
\* another caller, and no other transfer at all, separates the two.
C5_SendFetchNotSeparated ==
    (wire.rt = USB_IN /\ wire.idx > 1) =>
        /\ wirePrev.caller = wire.caller
        /\ wirePrev.idx = wire.idx - 1
        /\ wirePrev.rt = USB_OUT

\* C6: send() and recv() reach the transport only in CardReady: after a
\* reset_card succeeded, with no activate, deactivate or close since.
C6_CardIoOnlyWhenCardReady ==
    (last.op \in {"send", "recv"} /\ Len(LastX) > 0) =>
        last.lifeBefore = "CardReady"

\* C7: once deactivate() was called, activate() does not succeed again and
\* reset_card does not reach CardReady, unless the session is closed and
\* opened again in between.
C7_NoReactivationWithoutReopen ==
    /\ (last.op = "activate" /\ last.deactBefore # "none") => last.ret # 0
    /\ (last.op = "card_reset" /\ last.deactBefore # "none") => last.ret <= 0

\* the ATR fallback: in reset_card, transfer i belongs to the GET_ATR call
\* with arg 25 and the next transfer is the send of GET_ATR with arg 9
IsAtrFallback(i) ==
    /\ last.op = "card_reset"
    /\ i \in {3, 4} /\ i < Len(LastX)
    /\ IsCardSend(LastX[3], IKEY2K_CARDCMD_GET_ATR, 25)
    /\ IsCardSend(LastX[i + 1], IKEY2K_CARDCMD_GET_ATR, 9)

\* C8 as claimed: after a control transfer returned a negative result the
\* operation issues no further transfer (but for the ATR fallback) and
\* returns that same negative result.
C8_NegativeResultReturnedUnchanged ==
    \A i \in 1..Len(LastX) :
        LastX[i].res < 0 =>
            /\ i = Len(LastX) \/ IsAtrFallback(i)
            /\ i = Len(LastX) => last.ret = LastX[i].res

\* C8 as amended: after a control transfer returned a negative result the
\* operation issues no further transfer, but for the ATR fallback, which
\* reset_card also issues after a negative result of the GET_ATR arg 25
\* call; the operation then fails: send and recv return the transport's
\* negative result unchanged, activate, reset_card and deactivate report
\* the failure and return -1 whatever the negative result was.
C8_NegativeResultFails ==
    \A i \in 1..Len(LastX) :
        LastX[i].res < 0 =>
            /\ i = Len(LastX) \/ IsAtrFallback(i)
            /\ i = Len(LastX) =>
                 /\ last.op \in {"send", "recv"} => last.ret = LastX[i].res
                 /\ last.op \in {"activate", "card_reset", "deactivate"} =>
                      (last.ret = -1 /\ last.nerr = 1)

\* an activate() whose transfer returned -2
C8_Witness ==
    /\ last.op = "activate"
    /\ LastX[1].res = -2
    /\ last.ret = -1

\* C9: an operation that returns failure has called the error sink exactly
\* once, an operation that returns success has not called it.
C9_FailureReportedOnce ==
    last.op \in {"open", "activate", "card_reset", "deactivate", "send", "recv"} =>
        /\ last.ret < 0 => last.nerr = 1
        /\ last.ret >= 0 => last.nerr = 0

\* C10: every deactivate() issues the same card_exec(RESET, 0, no input,
\* capacity 2), whatever was called before, and succeeds iff the result is
\* exactly 1 byte of value 0.
C10_DeactivateSameEveryTime ==
    last.op = "deactivate" =>
        /\ Len(LastCalls) = 1
        /\ LastCalls[1].cmd = IKEY2K_CARDCMD_RESET
        /\ LastCalls[1].arg = 0 /\ LastCalls[1].cap = 2
        /\ Len(LastX) >= 1
        /\ IsCardSend(LastX[1], IKEY2K_CARDCMD_RESET, 0)
        /\ LastX[1].res < 0 => Len(LastX) = 1
        /\ LastX[1].res >= 0 =>
             (Len(LastX) = 2 /\ IsFetch(LastX[2]) /\ LastX[2].len = 2)
        /\ last.ret \in {0, -1}
        /\ last.ret = 0 <=> ResetOk(LastCalls[1])

\* a deactivate() that succeeds right after a deactivate() that succeeded
C10_Witness ==
    /\ last.op = "deactivate" /\ last.ret = 0
    /\ last.deactBefore = "ok" /\ last.lifeBefore = "Deactivated"
    /\ Len(LastX) = 2

\* C11: open() never leaks a handle: a handle that is not a USB handle or
\* cannot be configured is closed before open() fails, and the session
\* then holds no handle; after a successful open() the session holds the
\* one handle acquired, configured with interface 0, and has 1 slot.
\* open() issues no control transfer.
C11_OpenKeepsOneHandle ==
    last.op = "open" =>
        LET h == last.in.dev.h
            c == LastCalls
        IN  /\ LastX = <<>>
            /\ last.ret = 0 <=>
                 (h # NULL /\ last.in.dev.type = "USB" /\ last.in.setrc >= 0)
            /\ last.ret # 0 =>
                 /\ last.ret < 0
                 /\ device = NULL /\ handles = {}
                 /\ h # NULL => (Len(c) >= 1 /\ c[Len(c)] = DeviceClose(h))
            /\ last.ret = 0 =>
                 /\ device = h /\ handles = {h}
                 /\ nslots = 1
                 /\ c = <<SetParameters(h, 0, last.in.setrc)>>
            /\ \A i \in 1..Len(c) :
                 c[i].fn = "ifd_device_set_parameters" => c[i].iface = 0

\* an open() that failed on a handle that is not a USB handle
C11_Witness ==
    /\ last.op = "open" /\ last.ret = -1
    /\ last.in.dev.h # NULL /\ last.in.dev.type = "OTHER"
    /\ handles = {}

\* what the operation that returned last did, as an outcome
LastOutcome == Outcome(last.ret, last.nerr, last.x, last.calls, last.out)

\* C12: dad and timeout do not alter send() and recv(): with any other dad
\* (and timeout) the same buffer or capacity leads to the same control
\* transfers, all with the fixed timeout of 1000 ms, and the same results,
\* for every answer of the device.
C12_DadAndTimeoutIgnored ==
    /\ last.op = "send" =>
         LET len == last.in.len
             here == ikey2k_send(last.in.dad, SendBuffer(len), len)
         IN  /\ LastOutcome \in here
             /\ \A d \in Dads : ikey2k_send(d, SendBuffer(len), len) = here
             /\ \A i \in 1..Len(LastX) : LastX[i].timeout = 1000
    /\ last.op = "recv" =>
         LET len == last.in.len
             here == ikey2k_recv(last.in.dad, len, last.in.timeout)
         IN  /\ LastOutcome \in here
             /\ \A d \in Dads, t \in Timeouts : ikey2k_recv(d, len, t) = here
             /\ \A i \in 1..Len(LastX) : LastX[i].timeout = 1000

\* a recv() with dad 1 and timeout 0 that received 9 bytes
C12_Witness ==
    /\ last.op = "recv" /\ last.in.dad = 1 /\ last.in.timeout = 0
    /\ Len(LastX) = 1 /\ last.ret = 9

\* C13: card_status(slot), in every state of the session and for every
\* slot, reports the card present, returns success, issues no control
\* transfer and changes nothing of the session.
C13_CardStatusAlwaysPresent ==
    [][ last'.op = "card_status" =>
          /\ last'.ret = 0
          /\ last'.out = <<IFD_CARD_PRESENT>>
          /\ last'.x = <<>> /\ last'.nerr = 0
          /\ device' = device /\ nslots' = nslots /\ handles' = handles
          /\ life' = life /\ deactSeen' = deactSeen ]_vars

\* a card_status for slot -1 on a deactivated session
C13_Witness ==
    /\ last.op = "card_status" /\ last.in.slot = -1
    /\ last.lifeBefore = "Deactivated"
    /\ last.ret = 0

\* byte i of the buffer b of n bytes, 0 beyond its end
ByteAt(b, n, i) == IF i <= n THEN b[i] ELSE 0
Max(a, b) == IF a > b THEN a ELSE b

\* C14: the frame card_exec hands to the Device Command Layer starts with
\* the two bytes (subcommand, arg) and is 2 + min(254, len(input)) bytes
\* long: after the two bytes come the first min(254, len(input)) bytes of
\* the input, and nothing else.
C14_FrameTruncated ==
    last.op = "do_card_cmd" =>
        LET n      == last.in.len
            copied == Min(254, n)
            t      == LastX[1]
        IN  /\ t.rt = USB_OUT /\ t.req = IKEY2K_CMD_CARD_CTL
            /\ t.value = last.in.cmd + 256 * last.in.arg
            /\ t.index = ByteAt(last.in.data, copied, 1)
                         + 256 * ByteAt(last.in.data, copied, 2)
            /\ t.len = Max(0, 2 + copied - 4)
            /\ t.data = SubSeq(last.in.data, 3, copied)

\* C15: Codec send issues exactly one host-to-device transfer, request =
\* command, timeout 1000 ms, value = b0 + 256*b1, index = b2 + 256*b3
\* (bytes beyond the input taken as 0), payload = input[4..n) of length
\* max(0, n - 4) holding none of the first 4 bytes, and returns the
\* transport's result unchanged.
C15_SendPacksHeader ==
    last.op = "do_send" =>
        LET n == last.in.len
            d == last.in.data
            t == LastX[1]
        IN  /\ Len(LastX) = 1
            /\ t.rt = 65 /\ t.req = last.in.cmd /\ t.timeout = 1000
            /\ t.value = ByteAt(d, n, 1) + 256 * ByteAt(d, n, 2)
            /\ t.index = ByteAt(d, n, 3) + 256 * ByteAt(d, n, 4)
            /\ t.data = SubSeq(d, 5, n)
            /\ t.len = Max(0, n - 4) /\ Len(t.data) = t.len
            /\ \A i \in 1..Min(4, n), j \in 1..Len(t.data) : t.data[j] # d[i]
            /\ last.ret = t.res

\* a send of 6 bytes ff fe fd fc fb fa with command CARD_IO, all accepted
C15_Witness ==
    /\ last.op = "do_send" /\ last.in.cmd = IKEY2K_CMD_CARD_IO
    /\ last.in.data = <<255, 254, 253, 252, 251, 250>>
    /\ LastX[1].value = 65279 /\ LastX[1].data = <<251, 250>>
    /\ last.ret = 2

\* C16: the Descriptor Validator returns a well-defined verdict for every
\* buffer: it accepts (returns 0) iff spec 4.4 accepts, and the verdict
\* depends on the bytes alone.
C16_ValidatorVerdict ==
    last.op = "parse_desc" =>
        /\ last.ret = 0 <=> SpecAccepts(last.in.desc)
        /\ Cardinality(ikey2k_parse_desc(last.in.desc, last.in.len)) = 1

\* C17: in execute and card_exec a failed send is returned unchanged and
\* not followed by a fetch; a send that succeeded is followed by exactly
\* one GET_RESPONSE fetch with the requested capacity, whose result is
\* returned, if output was requested (a buffer and a capacity > 0), and by
\* no fetch otherwise, the send's result being returned.
C17_SendThenFetch ==
    last.op \in {"do_cmd", "do_card_cmd"} =>
        LET want == last.in.outdata /\ last.in.outlen > 0
            t    == LastX[1]
        IN  /\ Len(LastX) >= 1
            /\ t.rt = USB_OUT
            /\ t.req = IF last.op = "do_cmd" THEN last.in.cmd ELSE IKEY2K_CMD_CARD_CTL
            /\ t.res < 0 => (Len(LastX) = 1 /\ last.ret = t.res)
            /\ (t.res >= 0 /\ ~want) => (Len(LastX) = 1 /\ last.ret = t.res)
            /\ (t.res >= 0 /\ want) =>
                 /\ Len(LastX) = 2
                 /\ IsFetch(LastX[2]) /\ LastX[2].len = last.in.outlen
                 /\ last.ret = LastX[2].res

\* an execute whose send succeeded and whose fetch returned 1 byte
C17_Witness ==
    /\ last.op = "do_cmd" /\ last.in.outdata /\ last.in.outlen = 2
    /\ Len(LastX) = 2 /\ LastX[1].res >= 0 /\ last.ret = 1

\* C18: reset_card leaves the caller's ATR buffer unchanged whenever it
\* fails; whenever it succeeds its return value L is 9 or 25, satisfies
\* 9 <= L <= atr_capacity, and exactly the first L bytes of the ATR buffer
\* are written, with the bytes fetched by the last GET_ATR call.  A 25-byte
\* ATR with atr_capacity < 25 fails without a fallback call.
C18_AtrBufferAllOrNothing ==
    last.op = "card_reset" =>
        LET n == Len(LastCalls)
        IN  /\ last.ret < 0 => last.out = <<>>
            /\ last.ret >= 0 =>
                 /\ last.ret \in {9, 25}
                 /\ 9 <= last.ret /\ last.ret <= last.in.size
                 /\ n \in {2, 3}
                 /\ LastCalls[n].cmd = IKEY2K_CARDCMD_GET_ATR
                 /\ LastCalls[n].rc = last.ret
                 /\ Len(last.out) = last.ret
                 /\ last.out = LastCalls[n].buf
            /\ (n >= 2 /\ LastCalls[2].rc = 25 /\ last.in.size < 25) =>
                 (last.ret = -1 /\ n = 2 /\ last.out = <<>>)

\* a 25-byte ATR was fetched into a capacity of 9: failure, no fallback
C18_Witness ==
    /\ last.op = "card_reset" /\ last.in.size = 9
    /\ Len(LastCalls) = 2 /\ LastCalls[2].rc = 25
    /\ last.ret = -1 /\ last.out = <<>>

\* a host-to-device CARD_CTL transfer
IsCtlSend(t) == t.rt = USB_OUT /\ t.req = IKEY2K_CMD_CARD_CTL

\* the number of control transfers each operation may issue
TransferCounts ==
    /\ last.op \in {"open", "close", "card_status"} => Len(LastX) = 0
    /\ last.op \in {"activate", "send", "recv"} => Len(LastX) = 1
    /\ last.op = "deactivate" => (Len(LastX) \in 1..2 /\ Len(LastCalls) = 1)
    /\ last.op = "card_reset" => (Len(LastX) \in 1..6 /\ Len(LastCalls) \in 1..3)

\* C19 as stated: every operation issues a bounded number of control
\* transfers (open, close, card_status 0; activate, send, recv exactly 1;
\* deactivate at most 2; reset_card at most 6), and within deactivate and
\* reset_card the transfers strictly alternate CARD_CTL send, GET_RESPONSE
\* fetch.
C19_StrictAlternation ==
    /\ TransferCounts
    /\ last.op \in {"deactivate", "card_reset"} =>
         \A i \in 1..Len(LastX) :
            IF i % 2 = 1 THEN IsCtlSend(LastX[i]) ELSE IsFetch(LastX[i])

\* C19, amended: the same bounds on the number of transfers; within
\* deactivate and reset_card the first transfer is a CARD_CTL send, every
\* GET_RESPONSE fetch directly follows a CARD_CTL send that returned a
\* non-negative result, every send that returned a non-negative result is
\* directly followed by its fetch, and a send that returned a negative
\* result is followed by no fetch: it is the last transfer, or, in
\* reset_card, the send of GET_ATR with arg 25 directly followed by the
\* send of GET_ATR with arg 9.
C19_BoundedSendFetch ==
    /\ TransferCounts
    /\ last.op \in {"deactivate", "card_reset"} =>
         /\ IsCtlSend(LastX[1])
         /\ \A i \in 1..Len(LastX) :
              /\ IsCtlSend(LastX[i]) \/ IsFetch(LastX[i])
              /\ IsFetch(LastX[i]) =>
                   (i > 1 /\ IsCtlSend(LastX[i-1]) /\ LastX[i-1].res >= 0)
              /\ (IsCtlSend(LastX[i]) /\ LastX[i].res >= 0) =>
                   (i < Len(LastX) /\ IsFetch(LastX[i+1]))
              /\ (IsCtlSend(LastX[i]) /\ LastX[i].res < 0 /\ i < Len(LastX)) =>
                   /\ last.op = "card_reset" /\ i = 3
                   /\ IsCardSend(LastX[i], IKEY2K_CARDCMD_GET_ATR, 25)
                   /\ IsCardSend(LastX[i+1], IKEY2K_CARDCMD_GET_ATR, 9)

\* a reset_card whose send of GET_ATR with arg 25 failed: send, fetch,
\* failed send, fallback send, fetch
C19_Witness ==
    /\ last.op = "card_reset" /\ Len(LastX) = 5
    /\ IsCtlSend(LastX[3]) /\ LastX[3].res < 0
    /\ IsCtlSend(LastX[4]) /\ IsFetch(LastX[5])

====
